---- MODULE Spec2Model ----
(***************************************************************************)
(* crossgrep: the extractor (crossgrep/src/extractor.rs), the chunker      *)
(* (softgrep-cli/src/chunker.rs) and the model descriptor                  *)
(* (softgrep-cli/src/model.rs) as one state machine.                       *)
(*                                                                         *)
(* One behaviour is one Extractor: its construction, then one call of      *)
(* extract_from_text whose captures the query cursor hands over one at a   *)
(* time.  chunk_node runs inside that call; its tree walk is modelled      *)
(* cursor move by cursor move.                                             *)
(*                                                                         *)
(* Conventions.  Token indices, line indices and capture indices are       *)
(* 0-based as in the Rust source; a TLA+ sequence s holds element i of the *)
(* Rust slice at s[i + 1].  A panic unwinds through extract_from_text and  *)
(* ends the whole call: pc = "panicked".                                   *)
(***************************************************************************)
EXTENDS Integers, Sequences, FiniteSets, TLC

(***************************************************************************)
(* Bounds of the model.                                                    *)
(***************************************************************************)
\* captures the query cursor reports in one extract_from_text call
MaxCaptures == 2
\* capture names one query declares
MaxLabels == 2
\* newline bytes in one captured node
MaxLines == 2

(***************************************************************************)
(* model.rs                                                                *)
(***************************************************************************)
Models == {"CodeBert", "Noop"}

\* usize::MAX.  The source's usize has 64 bits; TLC's integers have 32, so
\* the model keeps the greatest value it can add a token count to.  Every
\* count the model compares with it is below 2^11.
UsizeMax == 2^30 - 1

chunk_size(m) == IF m = "CodeBert" THEN 512 ELSE UsizeMax

chunk_overlap(m) == IF m = "CodeBert" THEN 64 ELSE 0

special_tokens(m) == IF m = "CodeBert" THEN 2 ELSE 0

\* k padding tokens (id 1)
Padding(k) == [i \in 1..k |-> 1]

\* The CodeBert arm when its first assertion holds: <s> body </s> <pad>*
CodeBertFrame(m, input_ids, ids) ==
    input_ids \o <<0>> \o ids \o <<2>>
              \o Padding(chunk_size(m) - special_tokens(m) - Len(ids))

\* prepare_input_ids(&self, input_ids, ids): the vector it leaves in
\* input_ids, or the panic of a failed assert! / clone_from_slice.
prepare_input_ids(m, input_ids, ids) ==
    IF m = "CodeBert"
    THEN IF ~(Len(ids) <= chunk_size(m) - special_tokens(m))
         THEN [panic |-> TRUE, input_ids |-> input_ids]
         ELSE LET out == CodeBertFrame(m, input_ids, ids)
              IN  [panic |-> ~(Len(out) = chunk_size(m)), input_ids |-> out]
    ELSE \* <[T]>::clone_from_slice panics unless both slices have one length
         IF Len(input_ids) # Len(ids)
         THEN [panic |-> TRUE, input_ids |-> input_ids]
         ELSE [panic |-> FALSE, input_ids |-> ids]

(***************************************************************************)
(* What the collaborators hand to the code: the captured node's byte       *)
(* slice as the tokenizer sees it, and the node's subtree.                 *)
(***************************************************************************)
\* Chunker::from_model: chunk_size - 2 * chunk_overlap - special_tokens
inner_chunk_size(m) ==
    chunk_size(m) - chunk_overlap(m) * 2 - special_tokens(m)

\* Chunker::from_model: chunk_size.ilog2()
RECURSIVE ilog2(_)
ilog2(n) == IF n <= 1 THEN 0 ELSE 1 + ilog2(n \div 2)

lookbehind_lines(m) == ilog2(chunk_size(m))

\* Distances, in tokens, from one newline to the next: at the line-length
\* guard's limit for CodeBert and one past it.
LineGaps == {inner_chunk_size("CodeBert"), inner_chunk_size("CodeBert") + 1}

\* The token index of every newline of a slice, in scan order (what
\* char_to_token answers for the newline bytes), for at most MaxLines lines.
RECURSIVE NewlineLayouts(_)
NewlineLayouts(k) ==
    IF k = 0 THEN {<<>>}
    ELSE LET shorter == NewlineLayouts(k - 1)
         IN  shorter \cup
             { Append(nl, (IF nl = <<>> THEN 0 ELSE nl[Len(nl)]) + g) :
                  nl \in {s \in shorter : Len(s) = k - 1}, g \in LineGaps }

\* Token index of the last newline, -1 when there is none
LastNewline(nl) == IF nl = <<>> THEN -1 ELSE nl[Len(nl)]

\* Token counts tried with a newline layout: without a newline, none and
\* the lengths around the fast path's limit chunk_size - special_tokens;
\* else the slice ends right after its last newline or chunk_overlap * 2
\* tokens later.
TokenCounts(nl) ==
    LET limit == chunk_size("CodeBert") - special_tokens("CodeBert")
    IN  IF nl = <<>>
        THEN {0, limit - 1, limit, limit + 1}
        ELSE {LastNewline(nl) + 1, LastNewline(nl) + 2 * chunk_overlap("CodeBert")}

\* A captured node's slice: valid UTF-8 or not, encodable or not, its token
\* count and the token indices of its newlines.
Slices ==
    { [utf8 |-> FALSE, encodes |-> TRUE, len |-> 0, nl |-> <<>>],
      [utf8 |-> TRUE, encodes |-> FALSE, len |-> 0, nl |-> <<>>] }
    \cup
    UNION { { [utf8 |-> TRUE, encodes |-> TRUE, len |-> l, nl |-> nl] :
                 l \in TokenCounts(nl) } : nl \in NewlineLayouts(MaxLines) }

\* source.len(): a newline token covers one byte, every other token three
SourceLen(slice) == 3 * slice.len - 2 * Cardinality({slice.nl[k] : k \in DOMAIN slice.nl})

\* encoding.get_ids(): the id of token i. "\n" is RoBERTa's token 50118.
TokenId(slice, i) ==
    IF \E k \in DOMAIN slice.nl : slice.nl[k] = i THEN 50118 ELSE 100 + (i % 7)

get_ids(slice) == [j \in 1..slice.len |-> TokenId(slice, j - 1)]

\* line_ct: the newline bytes of the slice (each resolves to one token here)
line_ct(slice) == Len(slice.nl)

(***************************************************************************)
(* Subtrees.  Nodes are numbered 1..n in pre-order, node 1 is the captured *)
(* node N; parent[1] = 0.  Rows are relative to N's start row.             *)
(***************************************************************************)
Min(S) == CHOOSE x \in S : \A y \in S : x <= y

\* Subtrees of a node spanning `lines` newlines: a leaf; a block whose
\* first child holds a grandchild; a chain.
TreeShapes(lines) ==
    LET mid == IF lines >= 1 THEN 1 ELSE 0
    IN  { [parent |-> <<0>>, start_row |-> <<0>>, end_row |-> <<lines>>],
          [parent |-> <<0, 1, 2, 1>>,
           start_row |-> <<0, 0, 0, mid>>,
           end_row |-> <<lines, mid, 0, lines>>],
          [parent |-> <<0, 1, 2>>,
           start_row |-> <<0, 0, lines>>,
           end_row |-> <<lines, lines, lines>>] }

NoNode == 0

\* TreeCursor::goto_first_child: the node the cursor moves to, or NoNode
goto_first_child(t, c) ==
    LET kids == {d \in DOMAIN t.parent : t.parent[d] = c}
    IN  IF kids = {} THEN NoNode ELSE Min(kids)

\* TreeCursor::goto_next_sibling: a cursor made by node.walk() treats that
\* node (node 1) as its root and never leaves it.
goto_next_sibling(t, c) ==
    LET sibs == {d \in DOMAIN t.parent : d > c /\ t.parent[d] = t.parent[c]}
    IN  IF c = 1 \/ sibs = {} THEN NoNode ELSE Min(sibs)

\* TreeCursor::goto_parent
goto_parent(t, c) == IF c = 1 THEN NoNode ELSE t.parent[c]

\* The body of the for loop over TreeWalker: a node that spans several
\* rows counts on its end row.
CountTerminal(terminals, t, n) ==
    LET end_line == t.end_row[n]
        start_line == t.start_row[n]
    IN  IF start_line # end_line
        THEN [terminals EXCEPT ![end_line + 1] = @ + 1]
        ELSE terminals


(***************************************************************************)
(* extractor.rs                                                            *)
(***************************************************************************)
\* Capture names, as their characters
Labels == {<<"q">>, <<"_", "f">>, <<"q", "_">>}

\* query.capture_names(): at most MaxLabels distinct names
RECURSIVE CaptureNameLists(_)
CaptureNameLists(k) ==
    IF k = 0 THEN {<<>>}
    ELSE LET shorter == CaptureNameLists(k - 1)
         IN  shorter \cup
             { Append(names, l) :
                  names \in {s \in shorter : Len(s) = k - 1},
                  l \in Labels } 

\* No two captures of a query share a name
Distinct(names) ==
    \A i, j \in DOMAIN names : i # j => names[i] # names[j]

\* str::starts_with('_')
starts_with_underscore(name) == Len(name) > 0 /\ name[1] = "_"

\* Option<&Path>: absent, a UTF-8 path, a path that is not UTF-8
Paths == {"none", "src/a.rs", "non-utf8"}

VARIABLES
    model,              \* the Model the extractor's chunker is bound to
    path,               \* extract_from_text's path argument
    captures,           \* Extractor.captures
    ignores,            \* Extractor.ignores
    warnings,           \* what eprintln! has written, in order
    reported,           \* the captures the query cursor has handed over
    extracted_matches,  \* the ExtractedMatch records collected so far
    result,             \* extract_from_text's return value
    pc,                 \* where the call stands
    cur,                \* the capture chunk_node is working on
    tree,               \* the subtree of cur's node
    node_terminals,     \* chunk_node's histogram
    cursor,             \* TreeWalker.cursor's node
    values,             \* Invocation::extractors: the (language, query) targets
    model_identifier,   \* Invocation::extractors: the MODEL argument
    tuples,             \* how many targets the first for loop has consumed
    query_strings,      \* Invocation::extractors: language -> fused query text
    out,                \* Invocation::extractors: the extractors built so far
    build,              \* the build of the crate: debug or release
    newline_token_indices, \* chunk_node's newline_token_indices
    chunk_line_start,   \* chunk_node's chunk_line_start
    chunk_line_end,     \* chunk_node's chunk_line_end (line 86)
    is_first_chunk,     \* chunk_node's is_first_chunk
    chunks_vec,             \* chunk_node's chunks
    min_end_point,      \* chunk_node's min_end_point
    chunk_line_end_inner, \* the chunk_line_end of line 98, which shadows
    chunk_start,        \* chunk_node's chunk_start
    chunk_end           \* chunk_node's chunk_end

\* The state of Invocation::extractors besides model, warnings, result, pc
fusionVars == <<values, model_identifier, tuples, query_strings, out>>

\* The build and the locals of chunk_node from line 67 on
slideVars == <<build, newline_token_indices, chunk_line_start,
               chunk_line_end, is_first_chunk, chunks_vec, min_end_point,
               chunk_line_end_inner, chunk_start, chunk_end>>

vars == <<model, path, captures, ignores, warnings, reported,
          extracted_matches, result, pc, cur, tree, node_terminals, cursor,
          fusionVars, slideVars>>

NoCapture == [index |-> -1, slice |-> [utf8 |-> TRUE, encodes |-> TRUE, len |-> 0, nl |-> <<>>]]
NoTree == [parent |-> <<>>, start_row |-> <<>>, end_row |-> <<>>]

\* chunk_node has not come to line 67
NoSlide ==
    /\ build = "release"
    /\ newline_token_indices = <<>>
    /\ chunk_line_start = 0
    /\ chunk_line_end = 0
    /\ is_first_chunk = 1
    /\ chunks_vec = <<>>
    /\ min_end_point = 0
    /\ chunk_line_end_inner = 0
    /\ chunk_start = 0
    /\ chunk_end = 0

\* Invocation::extractors is not running
NoInvocation ==
    /\ values = <<>>
    /\ model_identifier = "codebert"
    /\ tuples = 0
    /\ query_strings = <<>>
    /\ out = <<>>

Init ==
    /\ model \in Models
    /\ path \in Paths
    /\ captures \in {names \in CaptureNameLists(MaxLabels) : Distinct(names)}
    /\ ignores = {}
    /\ warnings = <<>>
    /\ reported = <<>>
    /\ extracted_matches = <<>>
    /\ result = "pending"
    /\ pc = "new"
    /\ cur = NoCapture
    /\ tree = NoTree
    /\ node_terminals = <<>>
    /\ cursor = NoNode
    /\ NoInvocation
    /\ NoSlide

\* Extractor::new: the indices of the underscored names, and the warning
\* when every name is one.
StructuralIndices(names) ==
    {i \in 0..(Len(names) - 1) : starts_with_underscore(names[i + 1])}

New ==
    /\ pc = "new"
    /\ ignores' = StructuralIndices(captures)
    /\ warnings' = IF Len(captures) = Cardinality(StructuralIndices(captures))
                   THEN Append(warnings, [kind |-> "only ignored captures"])
                   ELSE warnings
    /\ pc' = "extract"
    /\ UNCHANGED <<model, path, captures, reported, extracted_matches,
                   result, cur, tree, node_terminals, cursor>>

\* Reportable as a filter that lets every capture through
ReportableUnfiltered(index) == TRUE

\* The filter at line 92: whether a capture goes on to the chunker
Reportable(index) == ~(index \in ignores)

\* The query cursor hands over one capture of a match; a structural one is
\* filtered out before its node is looked at, any other goes to chunk_node.
NextCapture ==
    /\ pc = "extract"
    /\ Len(reported) < MaxCaptures
    /\ \E index \in 0..(Len(captures) - 1) :
          IF Reportable(index)
          THEN /\ \E slice \in Slices : cur' = [index |-> index, slice |-> slice]
               /\ pc' = "chunk"
               /\ UNCHANGED reported
          ELSE /\ reported' = Append(reported,
                      [index |-> index, slice |-> NoCapture.slice,
                       outcome |-> "ignored", error |-> ""])
               /\ UNCHANGED <<cur, pc>>
    /\ UNCHANGED <<model, path, captures, ignores, warnings,
                   extracted_matches, result, tree, node_terminals, cursor>>

\* The matches are exhausted: lines 125-133
Finish ==
    /\ pc = "extract"
    /\ result' = IF extracted_matches = <<>> THEN "Ok(None)" ELSE "Ok(Some)"
    /\ pc' = "returned"
    /\ UNCHANGED <<model, path, captures, ignores, warnings, reported,
                   extracted_matches, cur, tree, node_terminals, cursor>>

\* A panic unwinds out of extract_from_text
Panics(message) ==
    /\ pc' = "panicked"
    /\ result' = message
    /\ UNCHANGED <<model, path, captures, ignores, warnings, reported,
                   extracted_matches, cur, tree, node_terminals, cursor>>

\* chunk_node returned Ok(chunks): lines 111-121
ChunkerOk(chunks) ==
    /\ extracted_matches' = Append(extracted_matches,
           [name |-> captures[cur.index + 1],
            capture |-> Len(reported) + 1,
            chunks |-> chunks])
    /\ reported' = Append(reported,
           [index |-> cur.index, slice |-> cur.slice,
            outcome |-> "ok", error |-> ""])
    /\ pc' = "extract"
    /\ cur' = NoCapture
    /\ UNCHANGED <<model, path, captures, ignores, warnings, result,
                   tree, node_terminals, cursor>>

\* chunk_node returned Err(e): lines 100-108.  The warning names the path,
\* whose into_string().unwrap() panics on a path that is not UTF-8.
ChunkerErr(e) ==
    IF path = "non-utf8"
    THEN Panics("panic: unwrap of a path that is not UTF-8")
    ELSE /\ warnings' = Append(warnings,
                [kind |-> "tokenization failed",
                 file |-> IF path = "none" THEN "stdin" ELSE path,
                 error |-> e])
         /\ reported' = Append(reported,
                [index |-> cur.index, slice |-> cur.slice,
                 outcome |-> "err", error |-> e])
         /\ pc' = "extract"
         /\ cur' = NoCapture
         /\ UNCHANGED <<model, path, captures, ignores, extracted_matches,
                        result, tree, node_terminals, cursor>>

(***************************************************************************)
(* chunker.rs: chunk_node                                                  *)
(***************************************************************************)
\* Line 41: the slice is short enough for one window
IsShortInput(m, len) == len < chunk_size(m) - special_tokens(m)

\* Line 34: from_utf8(source).expect("invalid utf-8")
ChunkInvalidUtf8 ==
    /\ pc = "chunk"
    /\ ~cur.slice.utf8
    /\ Panics("panic: invalid utf-8")

\* Lines 35-38: the tokenizer refuses the slice
ChunkEncodeFails ==
    /\ pc = "chunk"
    /\ cur.slice.utf8
    /\ ~cur.slice.encodes
    /\ ChunkerErr("Could not encode source")

\* Lines 41-50: one window over all of the slice's tokens
ChunkFastPath ==
    /\ pc = "chunk"
    /\ cur.slice.utf8
    /\ cur.slice.encodes
    /\ IsShortInput(model, cur.slice.len)
    /\ LET framed == prepare_input_ids(model, <<>>, get_ids(cur.slice))
       IN  IF framed.panic
           THEN Panics("panic: prepare_input_ids")
           ELSE ChunkerOk(<<[ids |-> framed.input_ids,
                             start_byte |-> 0,
                             end_byte |-> SourceLen(cur.slice)]>>)

\* Lines 52-59: the general path starts; the histogram is zeroed and the
\* tree walker's cursor is put on the captured node.
ChunkGeneralPath ==
    /\ pc = "chunk"
    /\ cur.slice.utf8
    /\ cur.slice.encodes
    /\ ~IsShortInput(model, cur.slice.len)
    /\ tree' \in TreeShapes(line_ct(cur.slice))
    /\ node_terminals' = [r \in 1..(line_ct(cur.slice) + 1) |-> 0]
    /\ cursor' = 1
    /\ pc' = "walk"
    /\ UNCHANGED <<model, path, captures, ignores, warnings, reported,
                   extracted_matches, result, cur>>

\* TreeWalker::next, lines 198-199: the cursor goes down to a first child,
\* which the for loop's body (lines 60-64) then counts.
WalkerFirstChild ==
    /\ pc = "walk"
    /\ goto_first_child(tree, cursor) # NoNode
    /\ cursor' = goto_first_child(tree, cursor)
    /\ node_terminals' = CountTerminal(node_terminals, tree, cursor')
    /\ UNCHANGED <<model, path, captures, ignores, warnings, reported,
                   extracted_matches, result, pc, cur, tree>>

\* TreeWalker::next, line 200: no child, so the while loop is entered
WalkerNoChild ==
    /\ pc = "walk"
    /\ goto_first_child(tree, cursor) = NoNode
    /\ pc' = "ascend"
    /\ UNCHANGED <<model, path, captures, ignores, warnings, reported,
                   extracted_matches, result, cur, tree, node_terminals,
                   cursor>>

\* Lines 201 and 206: goto_next_sibling succeeds, the loop ends and next
\* yields the sibling, which the for loop's body counts.
WalkerNextSibling ==
    /\ pc = "ascend"
    /\ goto_next_sibling(tree, cursor) # NoNode
    /\ cursor' = goto_next_sibling(tree, cursor)
    /\ node_terminals' = CountTerminal(node_terminals, tree, cursor')
    /\ pc' = "walk"
    /\ UNCHANGED <<model, path, captures, ignores, warnings, reported,
                   extracted_matches, result, cur, tree>>

\* Lines 201-202: no sibling, goto_parent succeeds, the loop goes round
WalkerParent ==
    /\ pc = "ascend"
    /\ goto_next_sibling(tree, cursor) = NoNode
    /\ goto_parent(tree, cursor) # NoNode
    /\ cursor' = goto_parent(tree, cursor)
    /\ UNCHANGED <<model, path, captures, ignores, warnings, reported,
                   extracted_matches, result, pc, cur, tree, node_terminals>>

\* Lines 201-205: on the captured node both moves fail; the if's body is
\* `()`, so the while loop goes round with nothing changed.
WalkerSpin ==
    /\ pc = "ascend"
    /\ goto_next_sibling(tree, cursor) = NoNode
    /\ goto_parent(tree, cursor) = NoNode
    /\ UNCHANGED vars

Next ==
    \/ New /\ UNCHANGED <<fusionVars, slideVars>>
    \/ NextCapture /\ UNCHANGED <<fusionVars, slideVars>>
    \/ Finish /\ UNCHANGED <<fusionVars, slideVars>>
    \/ ChunkInvalidUtf8 /\ UNCHANGED <<fusionVars, slideVars>>
    \/ ChunkEncodeFails /\ UNCHANGED <<fusionVars, slideVars>>
    \/ ChunkFastPath /\ UNCHANGED <<fusionVars, slideVars>>
    \/ ChunkGeneralPath /\ UNCHANGED <<fusionVars, slideVars>>
    \/ WalkerFirstChild /\ UNCHANGED <<fusionVars, slideVars>>
    \/ WalkerNoChild /\ UNCHANGED <<fusionVars, slideVars>>
    \/ WalkerNextSibling /\ UNCHANGED <<fusionVars, slideVars>>
    \/ WalkerParent /\ UNCHANGED <<fusionVars, slideVars>>
    \/ WalkerSpin /\ UNCHANGED <<fusionVars, slideVars>>

Spec == Init /\ [][Next]_vars

(***************************************************************************)
(* cli.rs: Invocation::extractors.  Query texts are sequences of pieces:   *)
(* a parenthesized node pattern, identifier text (of which "_" alone is    *)
(* the wildcard pattern), "@" before a capture name, and ";", which starts *)
(* a comment that runs to the end of the line; no piece is a newline.      *)
(***************************************************************************)
MaxTargets == 2

NodePieces == {"(a)", "(b)"}

IdentPieces == {"_", "x", "query"}

\* The raw queries of the command line: empty; without a capture; with a
\* capture; with a structural capture; the wildcard with a capture; ending
\* in a comment; a capture with no pattern, which is no query.
RawQueries ==
    { <<>>,
      <<"(a)">>,
      <<"(a)", "@", "x">>,
      <<"(b)", "@", "_", "x">>,
      <<"_", "@", "x">>,
      <<"(b)", "@", "x", ";">>,
      <<"@", "x">> }

\* Language::from_str knows the first two
RawLanguages == {"elm", "rust", "klingon"}

Languages == {"elm", "rust"}

\* matches.get_many("additional-target"): the targets, in order; no target
\* at all is None.
RECURSIVE TargetLists(_)
TargetLists(k) ==
    IF k = 0 THEN {<<>>}
    ELSE LET shorter == TargetLists(k - 1)
         IN  shorter \cup
             { Append(ts, <<l, q>>) :
                  ts \in {s \in shorter : Len(s) = k - 1},
                  l \in RawLanguages, q \in RawQueries }

\* The query text left when its comment is skipped
Uncommented(text) ==
    LET semis == {k \in DOMAIN text : text[k] = ";"}
    IN  IF semis = {} THEN text ELSE SubSeq(text, 1, Min(semis) - 1)

\* The last piece of the identifier that starts at t[i]; i - 1 if none does
IdentEnd(t, i) ==
    LET stops == {k \in i..Len(t) : ~(t[k] \in IdentPieces)}
    IN  IF stops = {} THEN Len(t) ELSE Min(stops) - 1

\* The captures that follow a node pattern, from t[i] on: each is "@" and
\* an identifier, read as far as identifier text goes.
RECURSIVE CapturesAt(_, _, _)
CapturesAt(t, i, caps) ==
    IF i <= Len(t) /\ t[i] = "@"
    THEN IF IdentEnd(t, i + 1) < i + 1
         THEN [ok |-> FALSE, caps |-> caps, next |-> i]
         ELSE CapturesAt(t, IdentEnd(t, i + 1) + 1,
                         Append(caps, SubSeq(t, i + 1, IdentEnd(t, i + 1))))
    ELSE [ok |-> TRUE, caps |-> caps, next |-> i]

\* The patterns of a query text, from t[i] on
RECURSIVE PatternsAt(_, _, _)
PatternsAt(t, i, patterns) ==
    IF i > Len(t) THEN [ok |-> TRUE, patterns |-> patterns]
    ELSE IF t[i] \in NodePieces \cup {"_"}
    THEN LET c == CapturesAt(t, i + 1, <<>>)
         IN  IF c.ok
             THEN PatternsAt(t, c.next,
                             Append(patterns, [node |-> t[i], caps |-> c.caps]))
             ELSE [ok |-> FALSE, patterns |-> <<>>]
    ELSE [ok |-> FALSE, patterns |-> <<>>]

\* Language::parse_query: the compiled query, or the syntax error
parse_query(text) == PatternsAt(Uncommented(text), 1, <<>>)

\* The names of all captures of the patterns, in order, with repeats
RECURSIVE AllCaptures(_)
AllCaptures(patterns) ==
    IF patterns = <<>> THEN <<>>
    ELSE patterns[1].caps \o AllCaptures(Tail(patterns))

\* A sequence without its repeats, first occurrences kept
RECURSIVE Dedup(_)
Dedup(names) ==
    IF names = <<>> THEN <<>>
    ELSE LET front == Dedup(SubSeq(names, 1, Len(names) - 1))
             last == names[Len(names)]
         IN  IF \E k \in DOMAIN front : front[k] = last
             THEN front ELSE Append(front, last)

\* Query::capture_names
capture_names(query) == Dedup(AllCaptures(query.patterns))

\* String::push_str with the text "@query"
QueryLabel == <<"@", "query">>

\* String::push_str as a prepend
push_str_front(existing, s) == s \o existing

\* String::push_str
push_str(existing, s) == existing \o s

\* Extractor::new, as the extractor it returns; text is the string its
\* query was compiled from
ExtractorOf(lang, text, query) ==
    [language |-> lang,
     text |-> text,
     query |-> query,
     captures |-> capture_names(query),
     ignores |-> StructuralIndices(capture_names(query))]

\* What Invocation::extractors starts from
FusionInit ==
    /\ values \in TargetLists(MaxTargets)
    /\ model_identifier \in {"codebert", "noop"}
    /\ tuples = 0
    /\ query_strings = <<>>
    /\ out = <<>>
    /\ model = "CodeBert"
    /\ path = "none"
    /\ captures = <<>>
    /\ ignores = {}
    /\ warnings = <<>>
    /\ reported = <<>>
    /\ extracted_matches = <<>>
    /\ result = "pending"
    /\ pc = "args"
    /\ cur = NoCapture
    /\ tree = NoTree
    /\ node_terminals = <<>>
    /\ cursor = NoNode
    /\ NoSlide

\* bail! or ? with a context: extractors returns the error
Fails(message) ==
    /\ pc' = "returned"
    /\ result' = message
    /\ UNCHANGED <<model, path, captures, ignores, warnings, reported,
                   extracted_matches, cur, tree, node_terminals, cursor,
                   fusionVars>>

\* Lines 161-169: the targets and the model
ExtractorsArgs ==
    /\ pc = "args"
    /\ IF values = <<>>
       THEN Fails("Err: queries were required but not provided")
       ELSE IF model_identifier # "codebert"
       THEN Fails("Err: model not supported")
       ELSE /\ pc' = "fuse"
            /\ model' = "CodeBert"
            /\ UNCHANGED <<path, captures, ignores, warnings, reported,
                           extracted_matches, result, cur, tree,
                           node_terminals, cursor, fusionVars>>

\* Lines 184-202: one round of the loop over the targets
FuseTarget ==
    /\ pc = "fuse"
    /\ tuples < Len(values)
    /\ LET raw_lang == values[tuples + 1][1]
           raw_query == values[tuples + 1][2]
           temp_query == parse_query(raw_query)
           query_out == IF capture_names(temp_query) = <<>>
                        THEN push_str(raw_query, QueryLabel)
                        ELSE raw_query
       IN  IF ~(raw_lang \in Languages)
           THEN Fails("Err: could not parse language")
           ELSE IF ~temp_query.ok
           THEN Fails("Err: could not parse query")
           ELSE /\ query_strings' =
                      IF raw_lang \in DOMAIN query_strings
                      THEN [query_strings EXCEPT
                               ![raw_lang] = push_str(@, query_out)]
                      ELSE [l \in DOMAIN query_strings \cup {raw_lang} |->
                               IF l = raw_lang THEN query_out
                               ELSE query_strings[l]]
                /\ tuples' = tuples + 1
                /\ UNCHANGED <<model, path, captures, ignores, warnings,
                               reported, extracted_matches, result, pc, cur,
                               tree, node_terminals, cursor, values,
                               model_identifier, out>>

\* The languages an extractor has been built for
Built == {out[k].language : k \in DOMAIN out}

\* Lines 205-211: one round of the loop over the map, in the map's order
BuildExtractor ==
    /\ pc = "fuse"
    /\ tuples = Len(values)
    /\ \E lang \in DOMAIN query_strings \ Built :
          LET raw_query == query_strings[lang]
              query == parse_query(raw_query)
              extractor == ExtractorOf(lang, raw_query, query)
          IN  IF ~query.ok
              THEN Fails("Err: could not parse combined query")
              ELSE /\ out' = Append(out, extractor)
                   /\ warnings' =
                         IF Len(extractor.captures) = Cardinality(extractor.ignores)
                         THEN Append(warnings, [kind |-> "only ignored captures"])
                         ELSE warnings
                   /\ UNCHANGED <<model, path, captures, ignores, reported,
                                  extracted_matches, result, pc, cur, tree,
                                  node_terminals, cursor, values,
                                  model_identifier, tuples, query_strings>>

\* Line 213
ExtractorsReturn ==
    /\ pc = "fuse"
    /\ tuples = Len(values)
    /\ DOMAIN query_strings = Built
    /\ pc' = "returned"
    /\ result' = "Ok"
    /\ UNCHANGED <<model, path, captures, ignores, warnings, reported,
                   extracted_matches, cur, tree, node_terminals, cursor,
                   fusionVars>>

FusionNext ==
    \/ ExtractorsArgs /\ UNCHANGED slideVars
    \/ FuseTarget /\ UNCHANGED slideVars
    \/ BuildExtractor /\ UNCHANGED slideVars
    \/ ExtractorsReturn /\ UNCHANGED slideVars

FusionSpec == FusionInit /\ [][FusionNext]_vars

(***************************************************************************)
(* chunker.rs: chunk_node from line 67 on, as it runs on a slice too long  *)
(* for one window and on the histogram the loop of line 59 is to fill.     *)
(***************************************************************************)
MaxSlideLines == 3

MaxTerminals == 1

\* usize holds the values below Usize
Usize == UsizeMax + 1

\* a - b in usize: where b > a a debug build panics and a release build
\* wraps
usize_sub(a, b) == [overflow |-> b > a, value |-> (a - b) % Usize]

\* The builds of the crate
Builds == {"debug", "release"}

\* char_to_token answered None
NoToken == -1

\* Distances, in tokens, from one newline to the next: a short line, half
\* a window, the line-length guard's limit and one past it
SlideGaps == {1, 192, inner_chunk_size("CodeBert"), inner_chunk_size("CodeBert") + 1}

RECURSIVE SlideLayouts(_)
SlideLayouts(k) ==
    IF k = 0 THEN {<<>>}
    ELSE LET shorter == SlideLayouts(k - 1)
         IN  shorter \cup
             { Append(nl, (IF nl = <<>> THEN 0 ELSE nl[Len(nl)]) + g) :
                  nl \in {s \in shorter : Len(s) = k - 1}, g \in SlideGaps }

\* The slices of the general path: at least chunk_size - special_tokens
\* tokens, ending right after the last newline where that is enough or
\* chunk_overlap * 2 tokens later; and slices one of whose newline bytes
\* char_to_token does not resolve.
SlideSlices ==
    LET limit == chunk_size("CodeBert") - special_tokens("CodeBert")
        least(nl) == IF LastNewline(nl) + 1 > limit
                     THEN LastNewline(nl) + 1 ELSE limit
    IN  UNION { { [utf8 |-> TRUE, encodes |-> TRUE, len |-> l, nl |-> nl] :
                     l \in {least(nl), least(nl) + 2 * chunk_overlap("CodeBert")} } :
                  nl \in SlideLayouts(MaxSlideLines) }
        \cup
        { [utf8 |-> TRUE, encodes |-> TRUE, len |-> least(nl),
           nl |-> [nl EXCEPT ![Len(nl)] = NoToken]] :
             nl \in SlideLayouts(MaxSlideLines) \ {<<>>} }

\* token_to_chars(t).1.0: the bytes before token t
TokenStart(slice, t) ==
    3 * t - 2 * Cardinality({slice.nl[k] : k \in DOMAIN slice.nl} \cap 0..(t - 1))

\* What lines 85-89 and the walk leave when the newlines are mapped
SlideInit ==
    /\ model = "CodeBert"
    /\ build \in Builds
    /\ \E slice \in SlideSlices : cur = [index |-> 0, slice |-> slice]
    /\ node_terminals \in [1..(line_ct(cur.slice) + 1) -> 0..MaxTerminals]
    /\ newline_token_indices = <<>>
    /\ chunk_line_start = 0
    /\ chunk_line_end = 0
    /\ is_first_chunk = 1
    /\ chunks_vec = <<>>
    /\ min_end_point = 0
    /\ chunk_line_end_inner = 0
    /\ chunk_start = 0
    /\ chunk_end = 0
    /\ pc = "newlines"
    /\ result = "pending"
    /\ path = "none"
    /\ captures = <<>>
    /\ ignores = {}
    /\ warnings = <<>>
    /\ reported = <<>>
    /\ extracted_matches = <<>>
    /\ tree = NoTree
    /\ cursor = NoNode
    /\ NoInvocation

\* What the steps of the slide leave alone
slideFrame == <<model, build, cur, node_terminals, path, captures, ignores,
                warnings, reported, extracted_matches, tree, cursor,
                fusionVars>>

\* The first newline that char_to_token does not resolve or that lies more
\* than inner_chunk_size tokens after the one before it; 0 if none
FirstBadNewline(m, nl) ==
    LET bad == {k \in DOMAIN nl :
                   \/ nl[k] = NoToken
                   \/ nl[k] - (IF k = 1 THEN 0 ELSE nl[k - 1]) > inner_chunk_size(m)}
    IN  IF bad = {} THEN 0 ELSE Min(bad)

\* Lines 67-83: the token index of every newline, after the sentinel 0
MapNewlines ==
    /\ pc = "newlines"
    /\ LET nl == cur.slice.nl
           k == FirstBadNewline(model, nl)
       IN  IF k = 0
           THEN /\ newline_token_indices' = <<0>> \o nl
                /\ pc' = "slide"
                /\ UNCHANGED result
           ELSE /\ newline_token_indices' = <<0>> \o SubSeq(nl, 1, k - 1)
                /\ pc' = "returned"
                /\ result' = IF nl[k] = NoToken
                             THEN "Err: Could not find token index for newline"
                             ELSE "Err: line too long"
    /\ UNCHANGED <<chunk_line_start, chunk_line_end, is_first_chunk, chunks_vec,
                   min_end_point, chunk_line_end_inner, chunk_start,
                   chunk_end, slideFrame>>

\* newline_token_indices[line]
NlAt(line) == newline_token_indices[line + 1]

\* Lines 93-94: the lines from chunk_line_start to le no longer fit
ExceedsWindow(m, le) ==
    NlAt(le) - NlAt(chunk_line_start)
       > chunk_size(m) - chunk_overlap(m) - is_first_chunk * chunk_overlap(m)

\* Lines 91-95: one more line, and the window still holds
SlideAdvance ==
    /\ pc = "slide"
    /\ chunk_line_end < line_ct(cur.slice)
    /\ ~ExceedsWindow(model, chunk_line_end + 1)
    /\ chunk_line_end' = chunk_line_end + 1
    /\ UNCHANGED <<newline_token_indices, chunk_line_start, is_first_chunk,
                   chunks_vec, min_end_point, chunk_line_end_inner, chunk_start,
                   chunk_end, pc, result, slideFrame>>

\* The fold of lines 99-105 over v[i..]: the index and value of the last
\* greatest element
RECURSIVE FoldTerminals(_, _, _)
FoldTerminals(v, i, acc) ==
    IF i >= Len(v) THEN acc
    ELSE FoldTerminals(v, i + 1,
                       IF v[i + 1] >= acc[2] THEN <<i, v[i + 1]>> ELSE acc)

\* A step of the slide: where it leaves the call and its locals
SlideStep(p, r, ls, le, first, mep, inner, cs, ce, cks) ==
    /\ pc' = p
    /\ result' = r
    /\ chunk_line_start' = ls
    /\ chunk_line_end' = le
    /\ is_first_chunk' = first
    /\ min_end_point' = mep
    /\ chunk_line_end_inner' = inner
    /\ chunk_start' = cs
    /\ chunk_end' = ce
    /\ chunks_vec' = cks
    /\ UNCHANGED <<newline_token_indices, slideFrame>>

\* Lines 117-136: the record of the tokens chunk_start..chunk_end, or the
\* panic of the slice, of prepare_input_ids or of token_to_chars
ChunkOf(m, slice, cs, ce) ==
    IF cs > ce \/ ce > slice.len
    THEN [panic |-> "panic: slice index out of order or out of range"]
    ELSE LET framed == prepare_input_ids(m, <<>>, SubSeq(get_ids(slice), cs + 1, ce))
         IN  IF framed.panic
             THEN [panic |-> "panic: prepare_input_ids"]
             ELSE IF cs >= slice.len \/ ce >= slice.len
             THEN [panic |-> "panic: token out of range"]
             ELSE [panic |-> "",
                   chunk |-> [ids |-> framed.input_ids,
                              start_byte |-> TokenStart(slice, cs),
                              end_byte |-> TokenStart(slice, ce)]]

\* Lines 91-141: one more line, the window is exceeded and a chunk is closed
SlideClose ==
    /\ pc = "slide"
    /\ chunk_line_end < line_ct(cur.slice)
    /\ ExceedsWindow(model, chunk_line_end + 1)
    /\ LET ls == chunk_line_start
           le == chunk_line_end + 1
           back == usize_sub(le, lookbehind_lines(model))
           mep == IF ls <= back.value THEN ls ELSE back.value
           stop == usize_sub(le, 1)
           inner == FoldTerminals(SubSeq(node_terminals, mep + 1, stop.value),
                                  0, <<0, -1>>)[1] + mep
           from == usize_sub(NlAt(ls) + 1, chunk_overlap(model))
           cs == from.value
           last == usize_sub(cur.slice.len, 1)
           ce == IF last.value <= NlAt(inner) + chunk_overlap(model)
                 THEN last.value ELSE NlAt(inner) + chunk_overlap(model)
           made == ChunkOf(model, cur.slice, cs, ce)
       IN  IF build = "debug" /\ (back.overflow \/ stop.overflow)
           THEN SlideStep("panicked", "panic: line 97: attempt to subtract with overflow",
                          ls, le, is_first_chunk, min_end_point,
                          chunk_line_end_inner, chunk_start, chunk_end, chunks_vec)
           ELSE IF mep > stop.value \/ stop.value > Len(node_terminals)
           THEN SlideStep("panicked", "panic: line 98: slice index out of order or out of range",
                          ls, le, is_first_chunk, mep,
                          chunk_line_end_inner, chunk_start, chunk_end, chunks_vec)
           ELSE IF build = "debug" /\ from.overflow
           THEN SlideStep("panicked", "panic: line 110: attempt to subtract with overflow",
                          ls, le, is_first_chunk, mep, inner,
                          chunk_start, chunk_end, chunks_vec)
           ELSE IF build = "debug" /\ last.overflow
           THEN SlideStep("panicked", "panic: line 113: attempt to subtract with overflow",
                          ls, le, is_first_chunk, mep, inner, cs,
                          chunk_end, chunks_vec)
           ELSE IF made.panic # ""
           THEN SlideStep("panicked", made.panic,
                          ls, le, is_first_chunk, mep, inner, cs, ce, chunks_vec)
           ELSE SlideStep("slide", result,
                          inner, le, 0, mep, inner, cs, ce,
                          Append(chunks_vec, made.chunk))

\* Lines 144-171: the loop is over; the trailing chunk, and the return
SlideTrailing ==
    /\ pc = "slide"
    /\ ~(chunk_line_end < line_ct(cur.slice))
    /\ LET ls == chunk_line_start
           from == usize_sub(NlAt(ls) + 1, chunk_overlap(model))
           cs == from.value
           last == usize_sub(cur.slice.len, 1)
           ce == last.value
           made == ChunkOf(model, cur.slice, cs, ce)
       IN  IF build = "debug" /\ from.overflow
           THEN SlideStep("panicked", "panic: line 146: attempt to subtract with overflow",
                          ls, chunk_line_end, is_first_chunk, min_end_point,
                          chunk_line_end_inner, chunk_start, chunk_end, chunks_vec)
           ELSE IF build = "debug" /\ last.overflow
           THEN SlideStep("panicked", "panic: line 148: attempt to subtract with overflow",
                          ls, chunk_line_end, is_first_chunk, min_end_point,
                          chunk_line_end_inner, cs, chunk_end, chunks_vec)
           ELSE IF made.panic # ""
           THEN SlideStep("panicked", made.panic,
                          ls, chunk_line_end, is_first_chunk, min_end_point,
                          chunk_line_end_inner, cs, ce, chunks_vec)
           ELSE SlideStep("returned", "Ok",
                          ls, chunk_line_end, is_first_chunk, min_end_point,
                          chunk_line_end_inner, cs, ce,
                          Append(chunks_vec, made.chunk))

SlideNext ==
    \/ MapNewlines
    \/ SlideAdvance
    \/ SlideClose
    \/ SlideTrailing

SlideSpec == SlideInit /\ [][SlideNext]_vars

(***************************************************************************)
(* Vocabulary of the properties                                            *)
(***************************************************************************)
\* The slice is valid UTF-8 and the tokenizer encodes it
ValidInput(slice) == slice.utf8 /\ slice.encodes

\* L + F <= W
FitsOneWindow(m, slice) == slice.len + special_tokens(m) <= chunk_size(m)

\* No nl[k] - nl[k-1] exceeds W - 2 * O - F, with nl[0] = 0
GuardPasses(m, slice) ==
    \A k \in DOMAIN slice.nl :
       slice.nl[k] - (IF k = 1 THEN 0 ELSE slice.nl[k - 1])
          <= chunk_size(m) - 2 * chunk_overlap(m) - special_tokens(m)

\* The tokens whose text a chunk record's byte range holds
BodyTokens(slice, chunk) ==
    {t \in 0..(slice.len - 1) :
        chunk.start_byte <= TokenStart(slice, t)
        /\ TokenStart(slice, t) < chunk.end_byte}

\* The tree walker is on the captured node inside its while loop: only
\* WalkerSpin is enabled from here on, and it changes nothing.
WalkerSpinning ==
    /\ pc = "ascend"
    /\ goto_next_sibling(tree, cursor) = NoNode
    /\ goto_parent(tree, cursor) = NoNode

\* What became of the chunk_node call on the current capture
CurOutcome ==
    CASE pc = "panicked" /\ result = "panic: unwrap of a path that is not UTF-8"
            -> "err"
      [] pc = "panicked" -> "panic"
      [] WalkerSpinning -> "never returns"
      [] OTHER -> "running"

\* The chunks of the match record made from the i-th reported capture
ChunksOf(i) ==
    IF \E k \in DOMAIN extracted_matches : extracted_matches[k].capture = i
    THEN LET k == CHOOSE k \in DOMAIN extracted_matches :
                      extracted_matches[k].capture = i
         IN  extracted_matches[k].chunks
    ELSE <<>>

\* The chunk_node calls that are over or can go no further
SettledCalls ==
    { [slice |-> reported[i].slice, outcome |-> reported[i].outcome,
       error |-> reported[i].error, chunks |-> ChunksOf(i)] :
         i \in {j \in DOMAIN reported : reported[j].outcome # "ignored"} }
    \cup
    (IF cur # NoCapture /\ CurOutcome # "running"
     THEN {[slice |-> cur.slice, outcome |-> CurOutcome,
            error |-> IF CurOutcome = "err" THEN "Could not encode source" ELSE "",
            chunks |-> <<>>]}
     ELSE {})

\* A call on a slice too long for one window, which the guard lets through
GeneralPathCalls ==
    {c \in SettledCalls :
        ValidInput(c.slice) /\ ~FitsOneWindow(model, c.slice)
        /\ GuardPasses(model, c.slice)}

C2_ShortInputOneChunk ==
    model = "CodeBert" =>
       /\ pc \in {"walk", "ascend"} => ~FitsOneWindow(model, cur.slice)
       /\ \A c \in SettledCalls :
             (c.outcome = "ok" /\ FitsOneWindow(model, c.slice)) =>
                c.chunks = <<[ids |-> CodeBertFrame(model, <<>>, get_ids(c.slice)),
                              start_byte |-> 0,
                              end_byte |-> SourceLen(c.slice)]>>

(***************************************************************************)
(* C3.  Every chunk list chunk_node returns is monotone in start_byte and  *)
(* in end_byte, and the general path returns such a list.                  *)
(***************************************************************************)
Monotone(chunks) ==
    \A k \in 1..(Len(chunks) - 1) :
       /\ chunks[k].start_byte <= chunks[k + 1].start_byte
       /\ chunks[k].end_byte <= chunks[k + 1].end_byte

Covers(m, slice, chunks) ==
    /\ chunks # <<>>
    /\ chunks[1].start_byte = 0
    /\ \E t \in (slice.len - 1 - chunk_overlap(m))..(slice.len - 1) :
          t >= 0 /\ chunks[Len(chunks)].end_byte = TokenStart(slice, t)

Clamped(slice, chunk) ==
    \/ chunk.start_byte = 0
    \/ chunk.end_byte = TokenStart(slice, slice.len - 1)

OverlapIsO(m, slice, chunks) ==
    \A k \in 1..(Len(chunks) - 1) :
       (~Clamped(slice, chunks[k]) /\ ~Clamped(slice, chunks[k + 1])) =>
          Cardinality(BodyTokens(slice, chunks[k])
                      \cap BodyTokens(slice, chunks[k + 1])) = chunk_overlap(m)

AllStructural == \A i \in DOMAIN captures : starts_with_underscore(captures[i])

RecordsInOrder ==
    /\ \A k \in 1..(Len(extracted_matches) - 1) :
          extracted_matches[k].capture < extracted_matches[k + 1].capture
    /\ {extracted_matches[k].capture : k \in DOMAIN extracted_matches}
          = {i \in DOMAIN reported : reported[i].outcome = "ok"}

C7_ChunkerFailureIsLocal ==
    /\ RecordsInOrder
    /\ \A i \in DOMAIN reported :
          reported[i].outcome = "err" =>
             \E w \in DOMAIN warnings :
                /\ warnings[w].kind = "tokenization failed"
                /\ warnings[w].file = (IF path = "none" THEN "stdin" ELSE path)
    /\ \A c \in SettledCalls :
          (c.slice.utf8 /\ ~c.slice.encodes) => pc # "panicked"
    /\ pc = "returned" => result \in {"Ok(None)", "Ok(Some)"}

(***************************************************************************)
(* C8.  On a slice that is not valid UTF-8, or that the tokenizer refuses, *)
(* chunk_node returns an error value: it does not panic, and it returns no *)
(* chunk list.                                                             *)
(***************************************************************************)
C8_FailuresAreErrorValues ==
    \A c \in SettledCalls :
       ~ValidInput(c.slice) => (c.outcome = "err" /\ c.chunks = <<>>)

(***************************************************************************)
(* C9.  A general-path call fails with "line too long" exactly when some   *)
(* nl[k] - nl[k-1] exceeds W - 2 * O - F, and then has emitted no chunk.   *)
(***************************************************************************)
C9_LineLengthGuard ==
    \A c \in SettledCalls :
       (ValidInput(c.slice) /\ ~FitsOneWindow(model, c.slice)) =>
          /\ (c.outcome = "err" /\ c.error = "line too long")
                <=> ~GuardPasses(model, c.slice)
          /\ c.outcome = "err" => c.chunks = <<>>

(***************************************************************************)
(* C10.  Under Noop, prepare_input_ids leaves the body itself in the       *)
(* output, so a call on any slice returns one chunk whose ids are the raw  *)
(* tokenization, and the extraction succeeds.                              *)
(***************************************************************************)
C10_NoopCopiesBody ==
    model = "Noop" =>
       \A c \in SettledCalls :
          ValidInput(c.slice) =>
             /\ c.outcome = "ok"
             /\ Len(c.chunks) = 1
             /\ c.chunks[1].ids = get_ids(c.slice)

(***************************************************************************)
(* C11.  Invocation::extractors keeps one fused text per language: the     *)
(* texts of that language's targets in input order, each with "@query"     *)
(* appended when it declares no capture.  It builds one extractor from     *)
(* each fused text, so no two extractors share a language, and when it     *)
(* returns Ok every language of the targets has exactly one.               *)
(***************************************************************************)
\* A raw query as it enters the fused text
Augmented(raw) ==
    IF capture_names(parse_query(raw)) = <<>>
    THEN raw \o <<"@", "query">>
    ELSE raw

\* The fused text of a language: its targets' texts, in input order
RECURSIVE FusedText(_, _)
FusedText(targets, lang) ==
    IF targets = <<>> THEN <<>>
    ELSE LET front == FusedText(SubSeq(targets, 1, Len(targets) - 1), lang)
             last == targets[Len(targets)]
         IN  IF last[1] = lang THEN front \o Augmented(last[2]) ELSE front

TargetLanguages(targets) == {targets[k][1] : k \in DOMAIN targets}

C11_OneFusedExtractorPerLanguage ==
    LET seen == SubSeq(values, 1, tuples)
    IN  /\ DOMAIN query_strings = TargetLanguages(seen)
        /\ \A l \in DOMAIN query_strings :
              query_strings[l] = FusedText(seen, l)
        /\ \A j, k \in DOMAIN out : j # k => out[j].language # out[k].language
        /\ \A k \in DOMAIN out :
              out[k].text = FusedText(values, out[k].language)
        /\ (pc = "returned" /\ result = "Ok") =>
              /\ Built = TargetLanguages(values)
              /\ Len(out) = Cardinality(TargetLanguages(values))

\* Two targets of one language, the first without a capture, have been
\* fused into the one extractor that is returned.
C11_Witness ==
    /\ pc = "returned"
    /\ result = "Ok"
    /\ values = << <<"elm", <<"(a)">> >>, <<"elm", <<"(a)", "@", "x">> >> >>
    /\ Len(out) = 1
    /\ out[1].language = "elm"
    /\ out[1].text = <<"(a)", "@", "query", "(a)", "@", "x">>

(***************************************************************************)
(* C12.  When Invocation::extractors returns, the extractor of a language  *)
(* reports on any input the same match tuples, each as many times, as the  *)
(* extractors built from that language's targets one by one do together.   *)
(***************************************************************************)
\* The nodes of a parsed input: one of each kind, short enough for one
\* window, so that chunk_node returns Ok on each
InputNodes == {[id |-> 1, kind |-> "(a)"], [id |-> 2, kind |-> "(b)"]}

\* QueryCursor::matches: a node pattern matches the nodes of its kind, the
\* wildcard every node
MatchesNode(pattern, node) == pattern.node = "_" \/ pattern.node = node.kind

\* The captures of a query: pattern k, capture c of it
CaptureSites(query) ==
    UNION { { <<k, c>> : c \in DOMAIN query.patterns[k].caps } :
               k \in DOMAIN query.patterns }

\* extract_from_text: how many match records of the extractor carry this
\* label on this node
RecordCount(extractor, label, node) ==
    Cardinality({ site \in CaptureSites(extractor.query) :
        LET pattern == extractor.query.patterns[site[1]]
            index == CHOOSE i \in 0..(Len(extractor.captures) - 1) :
                        extractor.captures[i + 1] = pattern.caps[site[2]]
        IN  /\ MatchesNode(pattern, node)
            /\ pattern.caps[site[2]] = label
            /\ ~(index \in extractor.ignores) })

\* The extractor Invocation::extractors builds for a target on its own
SingleExtractor(target) ==
    ExtractorOf(target[1], Augmented(target[2]),
                parse_query(Augmented(target[2])))

\* The targets of a language, in order
RECURSIVE TargetsOf(_, _)
TargetsOf(targets, lang) ==
    IF targets = <<>> THEN <<>>
    ELSE IF targets[1][1] = lang
    THEN <<targets[1]>> \o TargetsOf(Tail(targets), lang)
    ELSE TargetsOf(Tail(targets), lang)

RECURSIVE SinglesCount(_, _, _)
SinglesCount(targets, label, node) ==
    IF targets = <<>> THEN 0
    ELSE RecordCount(SingleExtractor(targets[1]), label, node)
         + SinglesCount(Tail(targets), label, node)

LabelsOf(extractor) == {extractor.captures[i] : i \in DOMAIN extractor.captures}

FusedMatchesSingles(extractor) ==
    LET mine == TargetsOf(values, extractor.language)
        labels == LabelsOf(extractor) \cup
                  UNION {LabelsOf(SingleExtractor(mine[k])) : k \in DOMAIN mine}
    IN  /\ \A k \in DOMAIN mine : SingleExtractor(mine[k]).query.ok
        /\ \A node \in InputNodes : \A label \in labels :
              RecordCount(extractor, label, node)
                 = SinglesCount(mine, label, node)

C12_FusionEquivalence ==
    (pc = "returned" /\ result = "Ok") =>
       \A k \in DOMAIN out : FusedMatchesSingles(out[k])

(***************************************************************************)
(* C13.  When a chunk is closed with the cursors ls and le, the split line *)
(* lies in [max(ls, le - floor(log2 W)), le - 1], holds the greatest       *)
(* histogram value of that whole range and is the earliest line that       *)
(* does; computing the range neither underflows nor indexes out of bounds. *)
(***************************************************************************)
\* The call stopped while closing a chunk: chunk_line_end is the line that
\* exceeded the window
StoppedInClose == pc = "panicked" /\ ExceedsWindow(model, chunk_line_end)

TerminalsOf(t, D) ==
    [r \in 1..Len(node_terminals) |->
        Cardinality({d \in D : t.start_row[d] # t.end_row[d]
                                /\ t.end_row[d] + 1 = r})]

C14_HistogramWalkEnds ==
    pc \in {"walk", "ascend"} =>
       /\ cursor \in DOMAIN tree.parent
       /\ node_terminals = TerminalsOf(tree, 2..cursor)
             \/ (pc = "ascend" /\ \E d \in cursor..Len(tree.parent) :
                    node_terminals = TerminalsOf(tree, 2..d))
       /\ ~WalkerSpinning

(***************************************************************************)
(* C15.  A step that closes a chunk at the split line le' leaves the loop  *)
(* going with ls = le', first = 0 and le = le'; and at every loop head     *)
(* 0 <= ls <= le <= the number of lines.                                   *)
(***************************************************************************)
\* The loop is at its head and the next line exceeds the window
ClosesChunk ==
    /\ pc = "slide"
    /\ chunk_line_end < line_ct(cur.slice)
    /\ ExceedsWindow(model, chunk_line_end + 1)

StoppedInTrailing ==
    /\ pc = "panicked"
    /\ ~(chunk_line_end < line_ct(cur.slice))
    /\ ~ExceedsWindow(model, chunk_line_end)

====
